---- MODULE Spec2Model ----
(***************************************************************************)
(* py2md: a Python file is cut into text blocks (top-level triple-quote    *)
(* comments) and code blocks (extract_comments) and the blocks are put     *)
(* back together as one Markdown file (build_markdown).                    *)
(*                                                                         *)
(* A Python str is a sequence of characters, each character a string; a    *)
(* list of lines is a sequence of such sequences.                          *)
(***************************************************************************)
EXTENDS Naturals, Sequences, FiniteSets

VARIABLES
    pc,                \* where main (or the driver of a pure function) stands
    src,               \* the file at args.python: [exists, lines]
    code_lines,        \* extract_comments: file.readlines()
    i,                 \* extract_comments: index of the next line of the loop
    in_comment_block,  \* extract_comments: the boolean switch
    comment_block,     \* extract_comments: lines of the open text region
    code_block,        \* extract_comments: lines of the open code region
    blocks,            \* the list of Block(content, is_code)
    k,                 \* build_markdown: index of the next block of the loop
    file,              \* build_markdown: the string assembled so far
    dest,              \* the file at args.markdown: [status, content]
    arg,               \* the line handed to is_comment / remove_comment_syntax
    ret                \* what that call returned

vars == <<pc, src, code_lines, i, in_comment_block, comment_block, code_block,
          blocks, k, file, dest, arg, ret>>

----------------------------------------------------------------------------
(* Characters *)

DQ == "\""
SQ == "'"
NL == "\n"
BS == "\\"
BT == "backtick"  \* SANY takes no backquote inside a string literal
SP == " "

TripleDouble == <<DQ, DQ, DQ>>
TripleSingle == <<SQ, SQ, SQ>>
Fence == <<BT, BT, BT>>
Language == <<"p", "y", "t", "h", "o", "n">>

----------------------------------------------------------------------------
(* Bounds *)

MaxLines == 5
MaxBlocks == 3
MaxLineLen == 7

----------------------------------------------------------------------------
(* str methods *)

startswith(s, prefix) ==
    /\ Len(s) >= Len(prefix)
    /\ SubSeq(s, 1, Len(prefix)) = prefix

endswith(s, suffix) ==
    /\ Len(s) >= Len(suffix)
    /\ SubSeq(s, Len(s) - Len(suffix) + 1, Len(s)) = suffix

RECURSIVE replace(_, _, _)
replace(s, old, new) ==
    IF Len(s) < Len(old) THEN s
    ELSE IF SubSeq(s, 1, Len(old)) = old
         THEN new \o replace(SubSeq(s, Len(old) + 1, Len(s)), old, new)
         ELSE <<s[1]>> \o replace(Tail(s), old, new)

RECURSIVE join(_)
join(strs) ==
    IF strs = <<>> THEN <<>> ELSE Head(strs) \o join(Tail(strs))

----------------------------------------------------------------------------
(* Helpers of main.py *)

Block(content, is_code) == [content |-> content, is_code |-> is_code]

lstrip(s) ==
    LET blanks == { n \in 0..Len(s) : \A m \in 1..n : s[m] = SP }
    IN SubSeq(s, Cardinality(blanks), Len(s))

\* faulty variant of is_comment: the indentation is skipped first
is_comment_lstrip(line) ==
    startswith(lstrip(line), TripleDouble) \/ startswith(lstrip(line), TripleSingle)

is_comment(line) ==
    startswith(line, TripleDouble) \/ startswith(line, TripleSingle)

\* str.replace(old, new, 1)
replace_first(s, old, new) ==
    LET hits == { p \in 1..(Len(s) + 1 - Len(old)) : SubSeq(s, p, p + Len(old) - 1) = old }
    IN IF hits = {} THEN s
       ELSE LET p == CHOOSE q \in hits : \A r \in hits : q <= r
            IN SubSeq(s, 1, p - 1) \o new \o SubSeq(s, p + Len(old), Len(s))

\* str.removesuffix
removesuffix(s, suffix) ==
    IF endswith(s, suffix) THEN SubSeq(s, 1, Len(s) - Len(suffix)) ELSE s

\* faulty variant of remove_comment_syntax: one occurrence is removed, at the
\* end that matched
remove_comment_syntax_once(line) ==
    IF startswith(line, TripleDouble) THEN replace_first(line, TripleDouble, <<>>)
    ELSE IF startswith(line, TripleSingle) THEN replace_first(line, TripleSingle, <<>>)
    ELSE IF endswith(line, TripleDouble) THEN removesuffix(line, TripleDouble)
    ELSE IF endswith(line, TripleSingle) THEN removesuffix(line, TripleSingle)
    ELSE line

\* faulty variant of remove_comment_syntax: the delimiters are removed
\* wherever they stand
remove_comment_syntax_anywhere(line) ==
    replace(replace(line, TripleDouble, <<>>), TripleSingle, <<>>)

remove_comment_syntax(line) ==
    IF startswith(line, TripleDouble) THEN replace(line, TripleDouble, <<>>)
    ELSE IF startswith(line, TripleSingle) THEN replace(line, TripleSingle, <<>>)
    ELSE IF endswith(line, TripleDouble) THEN replace(line, TripleDouble, <<>>)
    ELSE IF endswith(line, TripleSingle) THEN replace(line, TripleSingle, <<>>)
    ELSE line

FenceOpen == <<NL>> \o Fence \o Language \o <<NL>>
FenceClose == <<NL>> \o Fence \o <<NL>>

\* faulty variant of RenderedBlock: the closing fence is left out
RenderedBlockUnclosed(block) ==
    IF Len(block.content) = 0 THEN <<>>
    ELSE IF block.is_code THEN FenceOpen \o block.content
    ELSE block.content

\* faulty variant of RenderedBlock: a TextBlock loses its trailing newline
RenderedBlockStripsText(block) ==
    IF Len(block.content) = 0 THEN <<>>
    ELSE IF block.is_code THEN FenceOpen \o block.content \o FenceClose
    ELSE removesuffix(block.content, <<NL>>)

\* faulty variant of RenderedBlock: a block of zero length is rendered too
RenderedBlockNoSkip(block) ==
    IF block.is_code THEN FenceOpen \o block.content \o FenceClose
    ELSE block.content

RenderedBlock(block) ==
    IF Len(block.content) = 0 THEN <<>>
    ELSE IF block.is_code THEN FenceOpen \o block.content \o FenceClose
    ELSE block.content

----------------------------------------------------------------------------
(* Inputs *)

OpenLine == TripleDouble \o <<"a", NL>>
BareLine == TripleDouble \o <<NL>>
CodeLine == <<"c", NL>>
IndentedLine == <<SP>> \o TripleDouble \o <<"d", NL>>
SingleLine == TripleSingle \o <<"e">> \o TripleSingle \o <<NL>>

LineSet == {OpenLine, BareLine, CodeLine, IndentedLine, SingleLine}

ContentSet ==
    { <<>>, <<"a", NL>>, <<NL, NL>>, <<BT, BT>>, <<BT>>, <<BS, BS>>, <<BS, "a">> }

BlockSet == { Block(c, b) : c \in ContentSet, b \in BOOLEAN }

LineChars == {DQ, SQ, "a", SP}

SeqsUpTo(S, n) == UNION { [1..m -> S] : m \in 0..n }

NoFile == [status |-> "untouched", content |-> <<>>]

----------------------------------------------------------------------------
(* main: argparser, extract_comments, build_markdown *)

Init ==
    /\ pc = "main"
    /\ src \in { [exists |-> FALSE, lines |-> <<>>] }
               \cup { [exists |-> TRUE, lines |-> ls] : ls \in SeqsUpTo(LineSet, MaxLines) }
    /\ code_lines = <<>>
    /\ i = 0
    /\ in_comment_block = FALSE
    /\ comment_block = <<>>
    /\ code_block = <<>>
    /\ blocks = <<>>
    /\ k = 0
    /\ file = <<>>
    /\ dest = NoFile
    /\ arg = <<>>
    /\ ret = <<>>

\* faulty variant of Argparser: main opens the destination before it reads
ArgparserOpensDest ==
    /\ pc = "main"
    /\ pc' = "extract_comments"
    /\ dest' = [status |-> "truncated", content |-> <<>>]
    /\ UNCHANGED <<src, code_lines, i, in_comment_block, comment_block,
                   code_block, blocks, k, file, arg, ret>>

Argparser ==
    /\ pc = "main"
    /\ pc' = "extract_comments"
    /\ UNCHANGED <<src, code_lines, i, in_comment_block, comment_block,
                   code_block, blocks, k, file, dest, arg, ret>>

ReadLines ==
    /\ pc = "extract_comments"
    /\ src.exists
    /\ code_lines' = src.lines
    /\ blocks' = <<>>
    /\ in_comment_block' = FALSE
    /\ comment_block' = <<>>
    /\ code_block' = <<>>
    /\ i' = 0
    /\ pc' = "loop"
    /\ UNCHANGED <<src, k, file, dest, arg, ret>>

ReadLinesFail ==
    /\ pc = "extract_comments"
    /\ ~src.exists
    /\ pc' = "failed_read"
    /\ UNCHANGED <<src, code_lines, i, in_comment_block, comment_block,
                   code_block, blocks, k, file, dest, arg, ret>>

\* faulty variant of EnterComment: the code block is flushed on line 0 too
EnterCommentAlwaysFlush ==
    /\ pc = "loop"
    /\ i < Len(code_lines)
    /\ is_comment(code_lines[i + 1])
    /\ ~in_comment_block
    /\ blocks' = Append(blocks, Block(join(code_block), TRUE))
    /\ code_block' = <<>>
    /\ comment_block' = Append(comment_block, remove_comment_syntax(code_lines[i + 1]))
    /\ in_comment_block' = TRUE
    /\ i' = i + 1
    /\ UNCHANGED <<pc, src, code_lines, k, file, dest, arg, ret>>

\* faulty variant of EnterComment: code_block is flushed but not emptied
EnterCommentKeepsCode ==
    /\ pc = "loop"
    /\ i < Len(code_lines)
    /\ is_comment(code_lines[i + 1])
    /\ ~in_comment_block
    /\ IF i # 0
       THEN blocks' = Append(blocks, Block(join(code_block), TRUE))
       ELSE UNCHANGED blocks
    /\ comment_block' = Append(comment_block, remove_comment_syntax(code_lines[i + 1]))
    /\ in_comment_block' = TRUE
    /\ i' = i + 1
    /\ UNCHANGED <<pc, src, code_lines, code_block, k, file, dest, arg, ret>>

EnterComment ==
    /\ pc = "loop"
    /\ i < Len(code_lines)
    /\ is_comment(code_lines[i + 1])
    /\ ~in_comment_block
    /\ IF i # 0
       THEN /\ blocks' = Append(blocks, Block(join(code_block), TRUE))
            /\ code_block' = <<>>
       ELSE UNCHANGED <<blocks, code_block>>
    /\ comment_block' = Append(comment_block, remove_comment_syntax(code_lines[i + 1]))
    /\ in_comment_block' = TRUE
    /\ i' = i + 1
    /\ UNCHANGED <<pc, src, code_lines, k, file, dest, arg, ret>>

\* faulty variant of ExitComment: comment_block is not emptied
ExitCommentKeepsLines ==
    /\ pc = "loop"
    /\ i < Len(code_lines)
    /\ is_comment(code_lines[i + 1])
    /\ in_comment_block
    /\ blocks' = Append(blocks, Block(join(comment_block), FALSE))
    /\ in_comment_block' = FALSE
    /\ i' = i + 1
    /\ UNCHANGED <<pc, src, code_lines, comment_block, code_block, k, file,
                   dest, arg, ret>>

\* faulty variant of ExitComment: what follows the delimiter on the closing
\* marker line is kept in the TextBlock
ExitCommentKeepsRemainder ==
    /\ pc = "loop"
    /\ i < Len(code_lines)
    /\ is_comment(code_lines[i + 1])
    /\ in_comment_block
    /\ blocks' = Append(blocks,
                        Block(join(Append(comment_block,
                                          remove_comment_syntax(code_lines[i + 1]))),
                              FALSE))
    /\ comment_block' = <<>>
    /\ in_comment_block' = FALSE
    /\ i' = i + 1
    /\ UNCHANGED <<pc, src, code_lines, code_block, k, file, dest, arg, ret>>

\* faulty variant of ExitComment: the switch stays on
ExitCommentStaysInside ==
    /\ pc = "loop"
    /\ i < Len(code_lines)
    /\ is_comment(code_lines[i + 1])
    /\ in_comment_block
    /\ blocks' = Append(blocks, Block(join(comment_block), FALSE))
    /\ comment_block' = <<>>
    /\ i' = i + 1
    /\ UNCHANGED <<pc, src, code_lines, in_comment_block, code_block, k, file,
                   dest, arg, ret>>

ExitComment ==
    /\ pc = "loop"
    /\ i < Len(code_lines)
    /\ is_comment(code_lines[i + 1])
    /\ in_comment_block
    /\ blocks' = Append(blocks, Block(join(comment_block), FALSE))
    /\ comment_block' = <<>>
    /\ in_comment_block' = FALSE
    /\ i' = i + 1
    /\ UNCHANGED <<pc, src, code_lines, code_block, k, file, dest, arg, ret>>

\* faulty variant of AppendLine: every line goes to code_block
AppendLineAlwaysCode ==
    /\ pc = "loop"
    /\ i < Len(code_lines)
    /\ ~is_comment(code_lines[i + 1])
    /\ code_block' = Append(code_block, code_lines[i + 1])
    /\ i' = i + 1
    /\ UNCHANGED <<pc, src, code_lines, in_comment_block, comment_block,
                   blocks, k, file, dest, arg, ret>>

AppendLine ==
    /\ pc = "loop"
    /\ i < Len(code_lines)
    /\ ~is_comment(code_lines[i + 1])
    /\ IF in_comment_block
       THEN /\ comment_block' = Append(comment_block, code_lines[i + 1])
            /\ UNCHANGED code_block
       ELSE /\ code_block' = Append(code_block, code_lines[i + 1])
            /\ UNCHANGED comment_block
    /\ i' = i + 1
    /\ UNCHANGED <<pc, src, code_lines, in_comment_block, blocks, k, file,
                   dest, arg, ret>>

\* faulty variant of LoopEnd: an open text region is flushed as well
LoopEndFlushesText ==
    /\ pc = "loop"
    /\ i = Len(code_lines)
    /\ blocks' = (IF Len(code_block) > 0
                  THEN Append(blocks, Block(join(code_block), TRUE))
                  ELSE blocks)
                 \o (IF Len(comment_block) > 0
                     THEN <<Block(join(comment_block), FALSE)>>
                     ELSE <<>>)
    /\ code_block' = <<>>
    /\ file' = <<>>
    /\ k' = 0
    /\ pc' = "build_markdown"
    /\ UNCHANGED <<src, code_lines, i, in_comment_block, comment_block,
                   dest, arg, ret>>

LoopEnd ==
    /\ pc = "loop"
    /\ i = Len(code_lines)
    /\ IF Len(code_block) > 0
       THEN /\ blocks' = Append(blocks, Block(join(code_block), TRUE))
            /\ code_block' = <<>>
       ELSE UNCHANGED <<blocks, code_block>>
    /\ file' = <<>>
    /\ k' = 0
    /\ pc' = "build_markdown"
    /\ UNCHANGED <<src, code_lines, i, in_comment_block, comment_block,
                   dest, arg, ret>>

RenderBlock ==
    /\ pc = "build_markdown"
    /\ k < Len(blocks)
    /\ file' = file \o RenderedBlock(blocks[k + 1])
    /\ k' = k + 1
    /\ UNCHANGED <<pc, src, code_lines, i, in_comment_block, comment_block,
                   code_block, blocks, dest, arg, ret>>

OpenDest ==
    /\ pc = "build_markdown"
    /\ k = Len(blocks)
    /\ dest' = [status |-> "truncated", content |-> <<>>]
    /\ pc' = "write"
    /\ UNCHANGED <<src, code_lines, i, in_comment_block, comment_block,
                   code_block, blocks, k, file, arg, ret>>

OpenDestFail ==
    /\ pc = "build_markdown"
    /\ k = Len(blocks)
    /\ pc' = "failed_write"
    /\ UNCHANGED <<src, code_lines, i, in_comment_block, comment_block,
                   code_block, blocks, k, file, dest, arg, ret>>

WriteFile ==
    /\ pc = "write"
    /\ dest' = [status |-> "written", content |-> file]
    /\ pc' = "done"
    /\ UNCHANGED <<src, code_lines, i, in_comment_block, comment_block,
                   code_block, blocks, k, file, arg, ret>>

Next ==
    \/ Argparser
    \/ ReadLines
    \/ ReadLinesFail
    \/ EnterComment
    \/ ExitComment
    \/ AppendLine
    \/ LoopEnd
    \/ RenderBlock
    \/ OpenDest
    \/ OpenDestFail
    \/ WriteFile

Spec == Init /\ [][Next]_vars

----------------------------------------------------------------------------
(* build_markdown on any list of blocks *)

InitRender ==
    /\ pc = "build_markdown"
    /\ src = [exists |-> FALSE, lines |-> <<>>]
    /\ code_lines = <<>>
    /\ i = 0
    /\ in_comment_block = FALSE
    /\ comment_block = <<>>
    /\ code_block = <<>>
    /\ blocks \in SeqsUpTo(BlockSet, MaxBlocks)
    /\ k = 0
    /\ file = <<>>
    /\ dest = NoFile
    /\ arg = <<>>
    /\ ret = <<>>

NextRender ==
    \/ RenderBlock
    \/ OpenDest
    \/ OpenDestFail
    \/ WriteFile

SpecRender == InitRender /\ [][NextRender]_vars

----------------------------------------------------------------------------
(* is_comment and remove_comment_syntax on any line, and the loop of          *)
(* extract_comments on a file that ends with that line                        *)

InitLine ==
    /\ pc = "is_comment"
    /\ arg \in SeqsUpTo(LineChars, MaxLineLen)
    /\ src = [exists |-> TRUE, lines |-> <<>>]
    /\ \E first \in {<<>>, <<BareLine>>} : code_lines = first \o <<arg>>
    /\ i = 0
    /\ in_comment_block = FALSE
    /\ comment_block = <<>>
    /\ code_block = <<>>
    /\ blocks = <<>>
    /\ k = 0
    /\ file = <<>>
    /\ dest = NoFile
    /\ ret = <<>>

CallIsComment ==
    /\ pc = "is_comment"
    /\ ret' = is_comment(arg)
    /\ pc' = "remove_comment_syntax"
    /\ UNCHANGED <<src, code_lines, i, in_comment_block, comment_block,
                   code_block, blocks, k, file, dest, arg>>

CallRemoveCommentSyntax ==
    /\ pc = "remove_comment_syntax"
    /\ ret' = remove_comment_syntax(arg)
    /\ pc' = "loop"
    /\ UNCHANGED <<src, code_lines, i, in_comment_block, comment_block,
                   code_block, blocks, k, file, dest, arg>>

NextLine ==
    \/ CallIsComment
    \/ CallRemoveCommentSyntax
    \/ EnterComment
    \/ ExitComment
    \/ AppendLine

SpecLine == InitLine /\ [][NextLine]_vars

----------------------------------------------------------------------------
(* Vocabulary of the properties *)

\* str.count: the number of non-overlapping occurrences, left to right
RECURSIVE count(_, _)
count(s, sub) ==
    IF Len(s) < Len(sub) THEN 0
    ELSE IF startswith(s, sub)
         THEN 1 + count(SubSeq(s, Len(sub) + 1, Len(s)), sub)
         ELSE count(Tail(s), sub)

\* sub occurs somewhere in s
Occurs(s, sub) ==
    \E p \in 1..(Len(s) + 1 - Len(sub)) : SubSeq(s, p, p + Len(sub) - 1) = sub

\* str.find from position start (1-based); 0 when sub does not occur there
find(s, sub, start) ==
    LET hits == { p \in start..(Len(s) + 1 - Len(sub)) :
                    SubSeq(s, p, p + Len(sub) - 1) = sub }
    IN IF hits = {} THEN 0 ELSE CHOOSE p \in hits : \A q \in hits : p <= q

\* the pieces occur in s one after the other, without overlap
RECURSIVE OccurInOrder(_, _, _)
OccurInOrder(s, pieces, start) ==
    IF pieces = <<>> THEN TRUE
    ELSE LET p == find(s, Head(pieces), start)
         IN /\ p # 0
            /\ OccurInOrder(s, Tail(pieces), p + Len(Head(pieces)))

Contents(bs) == [n \in 1..Len(bs) |-> bs[n].content]

IsNonEmptyCode(b) == b.is_code /\ Len(b.content) > 0
IsText(b) == ~b.is_code

\* extract_comments has returned: blocks is final
Segmented == pc \in {"build_markdown", "write", "done", "failed_write"}

\* the loop of build_markdown is over: file is the assembled string
Rendered ==
    \/ pc = "build_markdown" /\ k = Len(blocks)
    \/ pc \in {"write", "done", "failed_write"}

MarkerIdx(lines) == { m \in 1..Len(lines) : is_comment(lines[m]) }

\* the number of marker lines among the first n lines
MarkerCount(lines, n) == Cardinality({ m \in MarkerIdx(lines) : m <= n })

NthMarker(lines, n) ==
    CHOOSE m \in MarkerIdx(lines) : MarkerCount(lines, m) = n

PairedMarkers(lines) == MarkerCount(lines, Len(lines)) % 2 = 0

----------------------------------------------------------------------------
(* C1: the string build_markdown assembles holds no run of three or more    *)
(* newlines, whatever blocks it is given.  The code concatenates and never  *)
(* collapses: the statement fails.                                          *)

\* C1: the assembled string holds no three newlines in a row (violated)
C1_NoTripleNewline ==
    Rendered => ~Occurs(file, <<NL, NL, NL>>)

----------------------------------------------------------------------------
(* C2: the contents of the blocks, concatenated in emitted order, give back *)
(* the lines of the file.                                                   *)

\* C2 as stated: only the delimiters stripped from marker lines are missing
\* (violated)
C2_OnlyDelimitersMissing ==
    Segmented =>
        join(Contents(blocks))
          = join([n \in 1..Len(code_lines) |->
                    IF is_comment(code_lines[n])
                    THEN remove_comment_syntax(code_lines[n])
                    ELSE code_lines[n]])

\* line n opens a text region that a later marker line closes
OpensClosedRegion(lines, n) ==
    /\ is_comment(lines[n])
    /\ MarkerCount(lines, n) % 2 = 1
    /\ MarkerCount(lines, n) < MarkerCount(lines, Len(lines))

\* line n lies in a text region that no marker line closes
InUnclosedRegion(lines, n) ==
    /\ MarkerCount(lines, n) % 2 = 1
    /\ MarkerCount(lines, n) = MarkerCount(lines, Len(lines))

\* C2 as amended: the concatenated block contents are the lines of the file
\* in order, less the delimiters of the opening marker lines, every closing
\* marker line as a whole, and every line of a text region that is never
\* closed; no other line is lost, duplicated or reordered.
C2_Reconstruct ==
    Segmented =>
        join(Contents(blocks))
          = join([n \in 1..Len(code_lines) |->
                    IF is_comment(code_lines[n])
                    THEN IF OpensClosedRegion(code_lines, n)
                         THEN remove_comment_syntax(code_lines[n])
                         ELSE <<>>
                    ELSE IF InUnclosedRegion(code_lines, n)
                         THEN <<>>
                         ELSE code_lines[n]])

\* code, a text region whose closing marker line carries text, code again
C2_Witness ==
    /\ Segmented
    /\ code_lines = <<CodeLine, OpenLine, CodeLine, OpenLine, IndentedLine>>
    /\ Len(blocks) = 3

----------------------------------------------------------------------------
(* C3: when the marker lines come in pairs, the emitted blocks alternate in *)
(* kind, starting with a CodeBlock unless line 0 is a marker line, and then *)
(* with a TextBlock.                                                        *)

\* C3: with paired marker lines no two adjacent blocks have the same kind, and
\* the first block is a TextBlock exactly when line 0 is a marker line
C3_Alternate ==
    (Segmented /\ PairedMarkers(code_lines)) =>
        /\ \A n \in 1..(Len(blocks) - 1) : blocks[n].is_code # blocks[n + 1].is_code
        /\ blocks # <<>> => (blocks[1].is_code <=> ~is_comment(code_lines[1]))

\* line 0 is a marker line and two text regions follow each other
C3_Witness ==
    /\ Segmented
    /\ PairedMarkers(code_lines)
    /\ Len(code_lines) > 0
    /\ is_comment(code_lines[1])
    /\ Len(blocks) = 4
    /\ ~blocks[1].is_code

----------------------------------------------------------------------------
(* C4: every non-empty CodeBlock is rendered, at its place in block order,  *)
(* as one opening fence with the language name, a newline, the content      *)
(* unchanged, a newline and one closing fence.                              *)

WrappedCode(bs) ==
    [n \in 1..Len(SelectSeq(bs, IsNonEmptyCode)) |->
        <<NL>> \o Fence \o Language \o <<NL>>
           \o SelectSeq(bs, IsNonEmptyCode)[n].content \o <<NL>> \o Fence \o <<NL>>]

FencesCounted ==
    /\ count(file, Fence) = 2 * Len(SelectSeq(blocks, IsNonEmptyCode))
    /\ count(file, Fence \o Language) = Len(SelectSeq(blocks, IsNonEmptyCode))

\* C4 as stated: the fences number twice the non-empty CodeBlocks as soon as
\* no block content holds a fence (violated: two TextBlocks rendered side by
\* side can form one)
C4_FencesPerContent ==
    Rendered =>
        /\ OccurInOrder(file, WrappedCode(blocks), 1)
        /\ (\A n \in 1..Len(blocks) : ~Occurs(blocks[n].content, Fence))
              => FencesCounted

\* blocks a..b are rendered with nothing between them: TextBlocks and empty
\* blocks only
TextRun(bs, a, b) ==
    \A n \in a..b : IsText(bs[n]) \/ Len(bs[n].content) = 0

RunText(bs, a, b) ==
    join([n \in 1..(b - a + 1) |->
            IF IsText(bs[a + n - 1]) THEN bs[a + n - 1].content ELSE <<>>])

\* C4 as amended: the count holds when no block content holds a fence and no
\* TextBlock contents rendered side by side form one.
C4_FenceWrapping ==
    Rendered =>
        /\ OccurInOrder(file, WrappedCode(blocks), 1)
        /\ ( /\ \A n \in 1..Len(blocks) : ~Occurs(blocks[n].content, Fence)
             /\ \A a \in 1..Len(blocks) : \A b \in a..Len(blocks) :
                    TextRun(blocks, a, b) => ~Occurs(RunText(blocks, a, b), Fence) )
              => FencesCounted

\* two non-empty CodeBlocks around a TextBlock, all rendered
C4_Witness ==
    /\ Rendered
    /\ Len(blocks) = 3
    /\ IsNonEmptyCode(blocks[1])
    /\ IsText(blocks[2]) /\ blocks[2].content = <<"a", NL>>
    /\ IsNonEmptyCode(blocks[3])
    /\ count(file, Fence) = 4

----------------------------------------------------------------------------
(* C5: build_markdown collapses every doubled backslash of a TextBlock to a *)
(* single one and leaves CodeBlock content alone.  The code appends the     *)
(* text content as it is: the statement fails.                              *)

\* the normalization the tests call unescape_mathjax
unescape_mathjax(text) == replace(text, <<BS, BS>>, <<BS>>)

\* C5: the assembled string is the blocks in order, the TextBlocks with every
\* doubled backslash collapsed, the CodeBlocks fenced and otherwise untouched
\* (violated)
C5_TextUnescaped ==
    Rendered =>
        file = join([n \in 1..Len(blocks) |->
                       IF IsText(blocks[n])
                       THEN unescape_mathjax(blocks[n].content)
                       ELSE RenderedBlock(blocks[n])])

----------------------------------------------------------------------------
(* C6: every text region that a marker line opens and a later marker line   *)
(* closes becomes exactly one TextBlock: the opening line without its       *)
(* delimiter, then the lines strictly between the two marker lines; every   *)
(* maximal run of non-marker lines outside the text regions becomes one     *)
(* CodeBlock holding those lines.                                           *)

\* the maximal runs a..b of non-marker lines outside the text regions
CodeRuns(lines) ==
    { run \in (1..Len(lines)) \X (1..Len(lines)) :
        /\ run[1] <= run[2]
        /\ \A n \in run[1]..run[2] : ~is_comment(lines[n])
        /\ MarkerCount(lines, run[1]) % 2 = 0
        /\ run[1] = 1 \/ is_comment(lines[run[1] - 1])
        /\ run[2] = Len(lines) \/ is_comment(lines[run[2] + 1]) }

RunRank(lines, run) ==
    Cardinality({ r \in CodeRuns(lines) : r[1] <= run[1] })

\* C6: the TextBlocks are the closed text regions in order, the non-empty
\* CodeBlocks the maximal runs of non-marker lines outside them in order
C6_RegionsBecomeBlocks ==
    Segmented =>
        LET texts == SelectSeq(blocks, IsText)
            codes == SelectSeq(blocks, IsNonEmptyCode)
            closed == MarkerCount(code_lines, Len(code_lines)) \div 2
        IN /\ Len(texts) = closed
           /\ \A r \in 1..closed :
                LET o == NthMarker(code_lines, 2 * r - 1)
                    c == NthMarker(code_lines, 2 * r)
                IN texts[r].content
                     = remove_comment_syntax(code_lines[o])
                         \o join(SubSeq(code_lines, o + 1, c - 1))
           /\ Len(codes) = Cardinality(CodeRuns(code_lines))
           /\ \A run \in CodeRuns(code_lines) :
                codes[RunRank(code_lines, run)].content
                  = join(SubSeq(code_lines, run[1], run[2]))

\* code, a text region of two lines, code
C6_Witness ==
    /\ Segmented
    /\ code_lines = <<CodeLine, OpenLine, IndentedLine, BareLine, CodeLine>>
    /\ Len(blocks) = 3
    /\ blocks[2] = Block(<<"a", NL, SP>> \o TripleDouble \o <<"d", NL>>, FALSE)

----------------------------------------------------------------------------
(* C7: the destination is opened only after the source was read to its end  *)
(* and every block was rendered; when reading fails, or anything fails      *)
(* before the string is assembled, the destination stays as it was.         *)

\* C7: a destination that was touched implies the source read to its end and
\* all blocks rendered; before that, and after a failed read, it is untouched
C7_DestinationLast ==
    /\ dest.status # "untouched" =>
          /\ src.exists
          /\ code_lines = src.lines
          /\ i = Len(code_lines)
          /\ k = Len(blocks)
          /\ pc \in {"write", "done"}
    /\ dest.status = "written" => dest.content = file
    /\ pc \in {"main", "extract_comments", "loop", "build_markdown", "failed_read"}
          => dest = NoFile

\* reading the source failed
C7_Witness ==
    /\ pc = "failed_read"
    /\ ~src.exists
    /\ dest = NoFile

----------------------------------------------------------------------------
(* C8: is_comment is true exactly of the lines whose first three characters *)
(* are three double quotes or three single quotes; a line with anything     *)
(* before the delimiter, or with the delimiter further on only, leaves the  *)
(* switch of extract_comments as it is.                                     *)

DelimiterAtColumn0(line) ==
    /\ Len(line) >= 3
    /\ \/ line[1] = DQ /\ line[2] = DQ /\ line[3] = DQ
       \/ line[1] = SQ /\ line[2] = SQ /\ line[3] = SQ

\* C8: is_comment returns the test of the first three characters, and a loop
\* step on a line that fails it keeps in_comment_block
C8_MarkerIffPrefix ==
    /\ [](pc = "remove_comment_syntax" => ret = DelimiterAtColumn0(arg))
    /\ [][(pc = "loop" /\ i < Len(code_lines) /\ i' = i + 1
              /\ ~DelimiterAtColumn0(code_lines[i + 1]))
            => in_comment_block' = in_comment_block]_vars

\* an indented delimiter was consumed inside a text region
C8_Witness ==
    /\ pc = "loop"
    /\ i = 2
    /\ code_lines = <<BareLine, <<SP>> \o TripleDouble \o <<"a">> >>
    /\ in_comment_block
    /\ comment_block = <<<<NL>>, <<SP>> \o TripleDouble \o <<"a">> >>

----------------------------------------------------------------------------
(* C9: remove_comment_syntax substitutes for one delimiter only, the first  *)
(* that matches among prefix double, prefix single, suffix double, suffix   *)
(* single.                                                                  *)

\* remove_comment_syntax(arg) has returned into ret
Stripped == pc = "loop" /\ i = 0

\* C9 as stated: of a line that starts and ends with the same delimiter only
\* the prefix occurrence goes and the trailing one stays (violated)
C9_OnlyPrefixRemoved ==
    Stripped =>
        \A d \in {TripleDouble, TripleSingle} :
            (Len(arg) >= 6 /\ startswith(arg, d) /\ endswith(arg, d))
                => ret = SubSeq(arg, 4, Len(arg))

FirstMatch(line) ==
    IF startswith(line, TripleDouble) THEN TripleDouble
    ELSE IF startswith(line, TripleSingle) THEN TripleSingle
    ELSE IF endswith(line, TripleDouble) THEN TripleDouble
    ELSE IF endswith(line, TripleSingle) THEN TripleSingle
    ELSE <<>>

Without(s, ch) == SelectSeq(s, LAMBDA c : c # ch)

\* C9 as amended: the substitution is for one delimiter only, the first that
\* matches in that order, and it removes every occurrence of that delimiter
\* in the line: of a line that starts and ends with the same delimiter both
\* the prefix and the trailing occurrence go.
C9_FirstMatchEveryOccurrence ==
    Stripped =>
        LET d == FirstMatch(arg)
        IN IF d = <<>> THEN ret = arg
           ELSE /\ ~Occurs(ret, d)
                /\ Len(ret) = Len(arg) - 3 * count(arg, d)
                /\ Without(ret, d[1]) = Without(arg, d[1])
                /\ (Len(arg) >= 6 /\ endswith(arg, d)) => ~endswith(ret, d)

\* a one-line block in double quotes
C9_Witness ==
    /\ Stripped
    /\ arg = TripleDouble \o <<"a">> \o TripleDouble
    /\ ret = <<"a">>

----------------------------------------------------------------------------
(* C10: of a line that starts and ends with the delimiter every occurrence  *)
(* is removed, so that a one-line block gives its inner text; a line with   *)
(* the delimiter in the middle only is returned unchanged.                  *)

\* C10: delimiter at both ends: no occurrence is left, and the inner text is
\* returned when it holds no such quote; delimiter at neither end: unchanged
C10_BothEndsOrMiddle ==
    Stripped =>
        /\ \A d \in {TripleDouble, TripleSingle} :
             (Len(arg) >= 6 /\ startswith(arg, d) /\ endswith(arg, d)) =>
                /\ ~Occurs(ret, d)
                /\ ~Occurs(SubSeq(arg, 4, Len(arg) - 3), <<d[1]>>)
                      => ret = SubSeq(arg, 4, Len(arg) - 3)
        /\ ( /\ \E d \in {TripleDouble, TripleSingle} : Occurs(arg, d)
             /\ \A d \in {TripleDouble, TripleSingle} :
                    ~startswith(arg, d) /\ ~endswith(arg, d) )
              => ret = arg

\* a one-line block in single quotes
C10_Witness ==
    /\ Stripped
    /\ arg = TripleSingle \o <<"a">> \o TripleSingle
    /\ ret = <<"a">>

----------------------------------------------------------------------------
(* C11: text without a doubled backslash goes through the normalization and *)
(* the rendering unchanged; the normalization maps the empty string to the  *)
(* empty string.                                                            *)

IsCleanText(b) == IsText(b) /\ ~Occurs(b.content, <<BS, BS>>)

----------------------------------------------------------------------------
(* C12: when the input ends inside a text region, no TextBlock is emitted   *)
(* for that region and no trailing CodeBlock either: the last block, if     *)
(* any, is the CodeBlock flushed when the region was entered.               *)

\* C12: with an odd number of marker lines the TextBlocks are the closed
\* regions only, the lines from the last marker line on stay in comment_block,
\* and the last block is the CodeBlock of the lines before that marker line
\* (no block at all when that marker line is line 0)
C12_UnclosedRegionDropped ==
    (Segmented /\ ~PairedMarkers(code_lines)) =>
        LET total == MarkerCount(code_lines, Len(code_lines))
            o == NthMarker(code_lines, total)
            prev == IF total = 1 THEN 0 ELSE NthMarker(code_lines, total - 1)
            first == NthMarker(code_lines, 1)
        IN /\ Len(SelectSeq(blocks, IsText)) = (total - 1) \div 2
           /\ Len(SelectSeq(blocks, LAMBDA b : b.is_code))
                = (total + 1) \div 2 - (IF first = 1 THEN 1 ELSE 0)
           /\ comment_block
                = <<remove_comment_syntax(code_lines[o])>>
                    \o SubSeq(code_lines, o + 1, Len(code_lines))
           /\ code_block = <<>>
           /\ IF o = 1 THEN blocks = <<>>
              ELSE /\ blocks # <<>>
                   /\ blocks[Len(blocks)]
                        = Block(join(SubSeq(code_lines, prev + 1, o - 1)), TRUE)

\* code, then a text region of two lines that is never closed
C12_Witness ==
    /\ Segmented
    /\ code_lines = <<CodeLine, OpenLine, CodeLine>>
    /\ blocks = <<Block(CodeLine, TRUE)>>
    /\ comment_block = <<<<"a", NL>>, CodeLine>>

----------------------------------------------------------------------------
(* C13: a marker line that closes a text region gives no content to any     *)
(* block: what follows its delimiter is discarded, the TextBlock flushed at *)
(* that step holds what was accumulated before, and code_block is still     *)
(* empty after the step.                                                    *)

\* the next step of the loop consumes a marker line inside a text region
ClosingStep ==
    /\ pc = "loop"
    /\ i < Len(code_lines)
    /\ in_comment_block
    /\ DelimiterAtColumn0(code_lines[i + 1])
    /\ i' = i + 1

\* C13: a closing step appends one TextBlock, the lines accumulated before it
\* concatenated, and leaves both accumulators empty
C13_ClosingLineDiscarded ==
    [][ClosingStep =>
            /\ blocks' = Append(blocks, Block(join(comment_block), FALSE))
            /\ comment_block' = <<>>
            /\ code_block' = <<>>]_vars

\* a text region closed by a marker line that carries text
C13_Witness ==
    /\ pc = "loop"
    /\ i = 3
    /\ SubSeq(code_lines, 1, 3) = <<BareLine, CodeLine, OpenLine>>
    /\ blocks = <<Block(<<NL>> \o CodeLine, FALSE)>>
    /\ code_block = <<>>
    /\ comment_block = <<>>

----------------------------------------------------------------------------
(* C14: build_markdown skips every block of zero length: the assembled      *)
(* string is that of the same blocks with the empty ones taken out, and an  *)
(* empty CodeBlock between two text regions gives no fence.                 *)

IsNonEmpty(b) == Len(b.content) > 0

\* C14: the assembled string is the non-empty blocks in order, each CodeBlock
\* between its fences and each TextBlock as it is
C14_EmptyBlocksSkipped ==
    Rendered =>
        LET kept == SelectSeq(blocks, IsNonEmpty)
        IN file = join([n \in 1..Len(kept) |->
                          IF kept[n].is_code
                          THEN <<NL>> \o Fence \o Language \o <<NL>>
                                 \o kept[n].content \o <<NL>> \o Fence \o <<NL>>
                          ELSE kept[n].content])

\* an empty CodeBlock between two TextBlocks, rendered without a fence
C14_Witness ==
    /\ Rendered
    /\ blocks = <<Block(<<"a", NL>>, FALSE), Block(<<>>, TRUE), Block(<<"a", NL>>, FALSE)>>
    /\ file = <<"a", NL, "a", NL>>

----------------------------------------------------------------------------
(* C15: a CodeBlock is flushed for every marker line that opens a text      *)
(* region, except one on line 0; with lines that are non-empty strings the  *)
(* first block is never an empty CodeBlock and every empty CodeBlock comes  *)
(* right after a TextBlock.                                                 *)

IsCode(b) == b.is_code

\* the marker lines among the first n lines that open a text region and are
\* not line 0
OpeningAfterLine0(lines, n) ==
    { m \in MarkerIdx(lines) : m <= n /\ m # 1 /\ MarkerCount(lines, m) % 2 = 1 }

\* the file ends with non-marker lines outside a text region
EndsInCode(lines) ==
    /\ lines # <<>>
    /\ ~is_comment(lines[Len(lines)])
    /\ PairedMarkers(lines)

\* C15: the CodeBlocks number the opening marker lines consumed that are not
\* line 0 (and one more for code at the end of the file); no empty CodeBlock
\* is first, and each one follows a TextBlock
C15_CodeFlushedOnEntry ==
    /\ pc = "loop" =>
          Len(SelectSeq(blocks, IsCode))
            = Cardinality(OpeningAfterLine0(code_lines, i))
    /\ Segmented =>
          Len(SelectSeq(blocks, IsCode))
            = Cardinality(OpeningAfterLine0(code_lines, Len(code_lines)))
                + (IF EndsInCode(code_lines) THEN 1 ELSE 0)
    /\ (pc = "loop" \/ Segmented) =>
          \A n \in 1..Len(blocks) :
              (blocks[n].is_code /\ blocks[n].content = <<>>)
                  => (n > 1 /\ IsText(blocks[n - 1]))

\* a text region on line 0, then a second one right after it: one empty
\* CodeBlock, after the first TextBlock
C15_Witness ==
    /\ Segmented
    /\ code_lines = <<BareLine, BareLine, OpenLine, BareLine>>
    /\ blocks = <<Block(<<NL>>, FALSE), Block(<<>>, TRUE), Block(<<"a", NL>>, FALSE)>>

----------------------------------------------------------------------------
(* C16: at every step of the loop the accumulators exclude each other:      *)
(* code_block is empty while in_comment_block is true and comment_block is  *)
(* empty while it is false.                                                 *)

\* C16: inside a text region code_block is empty, outside comment_block is;
\* so no line is in both, and code left at the end of the loop means the
\* loop ended outside a text region
C16_AccumulatorsExclusive ==
    pc = "loop" =>
        /\ in_comment_block => code_block = <<>>
        /\ ~in_comment_block => comment_block = <<>>
        /\ code_block = <<>> \/ comment_block = <<>>
        /\ (i = Len(code_lines) /\ code_block # <<>>) => ~in_comment_block

\* inside the second text region, after code between the two
C16_Witness ==
    /\ pc = "loop"
    /\ i = 5
    /\ code_lines = <<BareLine, BareLine, CodeLine, OpenLine, CodeLine>>
    /\ in_comment_block
    /\ code_block = <<>>
    /\ comment_block = <<<<"a", NL>>, CodeLine>>

----------------------------------------------------------------------------
(* C17: after any prefix of the input in_comment_block is true exactly when *)
(* the marker lines consumed are odd in number, and the TextBlocks emitted  *)
(* number half the marker lines consumed, rounded down.                     *)

\* C17: in_comment_block is the parity of the marker lines among the first i
\* lines, and the TextBlocks number half of them, rounded down
C17_SwitchIsParity ==
    pc = "loop" =>
        /\ in_comment_block <=> (MarkerCount(code_lines, i) % 2 = 1)
        /\ Len(SelectSeq(blocks, IsText)) = MarkerCount(code_lines, i) \div 2

\* three marker lines consumed: inside a text region, one TextBlock emitted
C17_Witness ==
    /\ pc = "loop"
    /\ i = 4
    /\ MarkerCount(code_lines, i) = 3
    /\ in_comment_block
    /\ Len(SelectSeq(blocks, IsText)) = 1

====
